---- MODULE Spec2Model ----
(***************************************************************************)
(* mariadb++ connection (src/src/connection.cpp) as a state machine.       *)
(*                                                                         *)
(* The Connection object is the record [mysql, auto_commit, schema,        *)
(* charset]; the native client library is the record of sessions, one per  *)
(* handle mysql_init() has handed out.  Every method of the class is an    *)
(* operator from a state record to the SET of <<state, result>> pairs the  *)
(* method can return, one pair per outcome of the native calls it makes;   *)
(* connect(), set_auto_commit(), set_schema() and execute() call each      *)
(* other exactly as in the source, so they are mutually recursive here.    *)
(* A public operation is one action: it picks one of the outcomes.         *)
(* The state record of a call also carries                                 *)
(*   log   the native calls issued since the public operation began, in    *)
(*         order, each with its success (the result fetching of execute    *)
(*         is left out)                                                    *)
(*   fail  where the operation failed, "none" if nowhere                   *)
(*   sent  the number of statements of the caller's text last sent, 0 if   *)
(*         the send failed                                                 *)
(*   fetched, counted  how many results of that text execute() fetched so  *)
(*         far, and the rows the statement counts among them report        *)
(***************************************************************************)
EXTENDS Integers, Sequences, FiniteSets, TLC

\* bounds of the model
MaxHandles == 2     \* mysql_init() succeeds at most this many times
MaxOptions == 1     \* the account holds at most this many session options
MaxResults == 2     \* a submitted text yields at most this many results
MaxRows    == 1     \* a statement affects at most this many rows

NULL == 0

Names    == {"db1", "db2"}      \* schema names handed to set_schema
Charsets == {"utf8"}            \* charsets handed to set_charset

VARIABLES
    account,        \* m_account: the (immutable) account descriptor
    m_mysql,        \* m_mysql: NULL or the handle held
    m_auto_commit,  \* m_auto_commit
    m_schema,       \* m_schema
    m_charset,      \* m_charset
    sessions,       \* native library: handle -> session
    nalloc,         \* native library: number of handles handed out
    destroyed       \* the destructor has run

vars == <<account, m_mysql, m_auto_commit, m_schema, m_charset, sessions,
          nalloc, destroyed>>

Handles == 1..MaxHandles

-----------------------------------------------------------------------------
(* The account: what connect() reads of it. *)

Accounts ==
    [ssl_key : BOOLEAN,             \* ssl_key() is non-empty
     auto_commit : BOOLEAN,         \* auto_commit()
     schema : {"", "db1"},          \* schema()
     options : {0, MaxOptions}]     \* number of entries of options()

-----------------------------------------------------------------------------
(* The native client library.  A session is                                *)
(*   st         "free" (never handed out), "init" (allocated, no           *)
(*              handshake), "open" (handshake done, server reachable),     *)
(*              "lost" (handshake done, server gone), "closed"             *)
(*   autocommit the server-side autocommit mode (on after a handshake)     *)
(*   acset      mysql_autocommit succeeded on it                           *)
(*   db, cs     the database and character set in effect                   *)
(*   defsel     the account's schema was selected on it                    *)
(*   opts       number of SET OPTION statements the server accepted        *)
(*   pending    number of results of the last text not yet fetched         *)
(*   closes     number of mysql_close calls on it                          *)
(*   ends       number of mysql_thread_end calls made for it               *)
(* What the server held for a session is gone once the session is lost or  *)
(* closed.                                                                 *)

FreeSession ==
    [st |-> "free", autocommit |-> TRUE, acset |-> FALSE, db |-> "",
     cs |-> "", defsel |-> FALSE, opts |-> 0, pending |-> 0, closes |-> 0,
     ends |-> 0]

Logged(s, fn, ok) == [s EXCEPT !.log = Append(@, <<fn, ok>>)]

Failed(s, where) == [s EXCEPT !.fail = where]

\* What fetching the current result of a text can find: a buffered result
\* set, a statement without result set (rows affected), or no result set
\* although the result has fields.
Results ==
    {[kind |-> "set", rows |-> 0], [kind |-> "bad", rows |-> 0]}
    \cup {[kind |-> "count", rows |-> r] : r \in 0..MaxRows}

\* mysql_init(NULL): a new handle, or NULL when memory is exhausted
mysql_init(s) ==
    IF s.nalloc < MaxHandles
    THEN {<<[Logged(s, "mysql_init", TRUE) EXCEPT
               !.nalloc = s.nalloc + 1,
               !.sessions[s.nalloc + 1].st = "init"],
            s.nalloc + 1>>}
    ELSE {<<Logged(s, "mysql_init", FALSE), NULL>>}

\* mysql_stat(h) != NULL, by the documented contract of the call (a status
\* string, NULL if an error occurred): the server answers on an open
\* session, unless it has gone away since the last call, which the call
\* then finds out; NULL on a handle without a served session.
mysql_stat(s, h) ==
    IF s.sessions[h].st = "open"
    THEN {<<Logged(s, "mysql_stat", TRUE), TRUE>>,
          <<[Logged(s, "mysql_stat", FALSE) EXCEPT
               !.sessions[h] = [FreeSession EXCEPT !.st = "lost"]], FALSE>>}
    ELSE {<<Logged(s, "mysql_stat", FALSE), FALSE>>}

\* mysql_ssl_set(h, ...) == 0
mysql_ssl_set(s, h) ==
    {<<Logged(s, "mysql_ssl_set", TRUE), TRUE>>,
     <<Logged(s, "mysql_ssl_set", FALSE), FALSE>>}

\* mysql_real_connect(h, ...) != NULL
mysql_real_connect(s, h) ==
    {<<Logged(s, "mysql_real_connect", FALSE), FALSE>>}
    \cup IF s.sessions[h].st = "init"
         THEN {<<[Logged(s, "mysql_real_connect", TRUE) EXCEPT
                    !.sessions[h].st = "open",
                    !.sessions[h].autocommit = TRUE], TRUE>>}
         ELSE {}

\* mysql_autocommit(h, flag) == 0
mysql_autocommit(s, h, flag) ==
    {<<Logged(s, "mysql_autocommit", FALSE), FALSE>>}
    \cup IF s.sessions[h].st = "open"
         THEN {<<[Logged(s, "mysql_autocommit", TRUE) EXCEPT
                    !.sessions[h].autocommit = flag,
                    !.sessions[h].acset = TRUE], TRUE>>}
         ELSE {}

\* mysql_select_db(h, name) == 0
mysql_select_db(s, h, name) ==
    {<<Logged(s, "mysql_select_db", FALSE), FALSE>>}
    \cup IF s.sessions[h].st = "open"
         THEN {<<[Logged(s, "mysql_select_db", TRUE) EXCEPT
                    !.sessions[h].db = name,
                    !.sessions[h].defsel =
                        @ \/ (name = account.schema)], TRUE>>}
         ELSE {}

\* mysql_set_character_set(h, value) == 0
mysql_set_character_set(s, h, v) ==
    {<<Logged(s, "mysql_set_character_set", FALSE), FALSE>>}
    \cup IF s.sessions[h].st = "open"
         THEN {<<[Logged(s, "mysql_set_character_set", TRUE) EXCEPT
                    !.sessions[h].cs = v], TRUE>>}
         ELSE {}

\* a caller's text of n statements went out (n = 0: the send failed, or
\* the text was a session option of connect()); nothing of it has been
\* fetched yet
Sent(s, n) == [s EXCEPT !.sent = n, !.fetched = 0, !.counted = 0]

\* execute() fetched result r of the caller's text: one more result is
\* fetched, and the rows it reports as affected are r.rows when it is a
\* statement's count, none when it is a buffered set or unreadable
Fetched(s, r) ==
    IF s.sent = 0
    THEN s
    ELSE [s EXCEPT !.fetched = @ + 1,
                   !.counted = IF r.kind = "count" THEN @ + r.rows ELSE @]

\* mysql_real_query(h, text) == 0: the server ran the first statement of
\* the text; the text yields one result per statement.  kind is "option"
\* for the single SET OPTION statement of connect(), "user" for a caller's
\* text of up to MaxResults statements.
mysql_real_query(s, h, kind) ==
    {<<Sent(Logged(s, "mysql_real_query", FALSE), 0), FALSE>>}
    \cup IF s.sessions[h].st = "open"
         THEN {<<[Sent(Logged(s, "mysql_real_query", TRUE),
                       IF kind = "option" THEN 0 ELSE n) EXCEPT
                    !.sessions[h].pending = n,
                    !.sessions[h].opts =
                        IF kind = "option" THEN @ + 1 ELSE @], TRUE>>
               : n \in 1..(IF kind = "option" THEN 1 ELSE MaxResults)}
         ELSE {}

\* mysql_close(h); the closed session's memory is gone
mysql_close(s, h) ==
    [Logged(s, "mysql_close", TRUE) EXCEPT
        !.sessions[h] = [FreeSession EXCEPT
                            !.st = "closed",
                            !.closes = s.sessions[h].closes + 1,
                            !.ends = s.sessions[h].ends]]

\* mysql_thread_end(), made on behalf of handle h
mysql_thread_end(s, h) ==
    [Logged(s, "mysql_thread_end", TRUE) EXCEPT !.sessions[h].ends = @ + 1]


\* mysql_store_result(h) with mysql_field_count(h) and
\* mysql_affected_rows(h): what the current result turns out to be
mysql_store_result(s, h) == Results

\* mysql_next_result(h): 0 when another result is now current, -1 when
\* there was none, 1 when the next statement of the text failed (the
\* server runs nothing after a failed statement)
mysql_next_result(s, h) ==
    IF s.sessions[h].pending > 1
    THEN {<<[s EXCEPT !.sessions[h].pending = @ - 1], 0>>,
          <<[s EXCEPT !.sessions[h].pending = 0], 1>>}
    ELSE {<<[s EXCEPT !.sessions[h].pending = 0], -1>>}

-----------------------------------------------------------------------------
(* class connection *)

RECURSIVE connect(_), connect_setup(_), connect_options(_, _),
          set_auto_commit(_, _), set_schema(_, _), execute(_, _),
          execute_results(_, _)

\* connection::connected
connected(s) ==
    IF s.mysql = NULL
    THEN {<<s, FALSE>>}
    ELSE mysql_stat(s, s.mysql)

\* disconnect() with its guard inverted: returns when a handle is held
disconnect_guard_inverted(s) == s

\* disconnect() without the final m_mysql = NULL
disconnect_keeps_handle(s) ==
    IF s.mysql = NULL
    THEN s
    ELSE mysql_thread_end(mysql_close(s, s.mysql), s.mysql)

\* connection::disconnect
disconnect(s) ==
    IF s.mysql = NULL
    THEN s
    ELSE [mysql_thread_end(mysql_close(s, s.mysql), s.mysql) EXCEPT
            !.mysql = NULL]

\* MYSQL_ERROR_RETURN_FALSE: report, return false
MYSQL_ERROR_RETURN_FALSE(s, where) == <<Failed(s, where), FALSE>>

\* MYSQL_ERROR_DISCONNECT without its disconnect()
MYSQL_ERROR_no_disconnect(s, where) == <<Failed(s, where), FALSE>>

\* MYSQL_ERROR_DISCONNECT: report, disconnect(), return false
MYSQL_ERROR_DISCONNECT(s, where) == <<Failed(disconnect(s), where), FALSE>>

\* set_schema() caching the name before it checks the native call
set_schema_caches_early(s, name) ==
    UNION {IF ~c[2]
           THEN {<<c[1], FALSE>>}
           ELSE {IF d[2]
                 THEN <<[d[1] EXCEPT !.schema = name], TRUE>>
                 ELSE MYSQL_ERROR_RETURN_FALSE(
                          [d[1] EXCEPT !.schema = name], "native")
                 : d \in mysql_select_db(c[1], c[1].mysql, name)}
           : c \in connect(s)}

\* set_schema() reporting a failed mysql_select_db with
\* MYSQL_ERROR_DISCONNECT
set_schema_disconnects(s, name) ==
    UNION {IF ~c[2]
           THEN {<<c[1], FALSE>>}
           ELSE {IF d[2]
                 THEN <<[d[1] EXCEPT !.schema = name], TRUE>>
                 ELSE MYSQL_ERROR_DISCONNECT(d[1], "native")
                 : d \in mysql_select_db(c[1], c[1].mysql, name)}
           : c \in connect(s)}

\* connection::set_schema
set_schema(s, name) ==
    UNION {IF ~c[2]
           THEN {<<c[1], FALSE>>}
           ELSE {IF d[2]
                 THEN <<[d[1] EXCEPT !.schema = name], TRUE>>
                 ELSE MYSQL_ERROR_RETURN_FALSE(d[1], "native")
                 : d \in mysql_select_db(c[1], c[1].mysql, name)}
           : c \in connect(s)}

\* connection::set_charset
set_charset(s, v) ==
    UNION {IF ~c[2]
           THEN {<<c[1], FALSE>>}
           ELSE {IF d[2]
                 THEN <<[d[1] EXCEPT !.charset = v], TRUE>>
                 ELSE MYSQL_ERROR_RETURN_FALSE(d[1], "native")
                 : d \in mysql_set_character_set(c[1], c[1].mysql, v)}
           : c \in connect(s)}

\* set_auto_commit() without the early return of lines 114-115
set_auto_commit_always(s, flag) ==
    UNION {IF ~c[2]
           THEN {<<c[1], FALSE>>}
           ELSE {IF a[2]
                 THEN <<[a[1] EXCEPT !.auto_commit = flag], TRUE>>
                 ELSE MYSQL_ERROR_RETURN_FALSE(a[1], "native")
                 : a \in mysql_autocommit(c[1], c[1].mysql, flag)}
           : c \in connect(s)}

\* connection::set_auto_commit
set_auto_commit(s, flag) ==
    IF s.auto_commit = flag
    THEN {<<s, TRUE>>}
    ELSE UNION {IF ~c[2]
                THEN {<<c[1], FALSE>>}
                ELSE {IF a[2]
                      THEN <<[a[1] EXCEPT !.auto_commit = flag], TRUE>>
                      ELSE MYSQL_ERROR_RETURN_FALSE(a[1], "native")
                      : a \in mysql_autocommit(c[1], c[1].mysql, flag)}
                : c \in connect(s)}

\* connection::connect, from the setup phase on (lines 164-182)
connect_options(s, n) ==
    IF n = 0
    THEN {<<s, TRUE>>}
    ELSE UNION {IF e[2] # 1
                THEN {MYSQL_ERROR_DISCONNECT(e[1], "option")}
                ELSE connect_options(e[1], n - 1)
                : e \in execute(s, "option")}

connect_setup(s) ==
    UNION {IF ~a[2]
           THEN {MYSQL_ERROR_DISCONNECT(a[1], "autocommit")}
           ELSE IF account.schema = ""
           THEN connect_options(a[1], account.options)
           ELSE UNION {IF ~d[2]
                       THEN {MYSQL_ERROR_DISCONNECT(d[1], "schema")}
                       ELSE connect_options(d[1], account.options)
                       : d \in set_schema(a[1], account.schema)}
           : a \in set_auto_commit(s, account.auto_commit)}

\* connection::connect, the handshake (lines 154-162)
connect_handshake(s) ==
    UNION {IF ~r[2]
           THEN {MYSQL_ERROR_RETURN_FALSE(r[1], "handshake")}
           ELSE connect_setup(r[1])
           : r \in mysql_real_connect(s, s.mysql)}

\* the TLS step of connect() with its test inverted: set up when the key
\* is empty
connect_tls_inverted(s) ==
    IF ~account.ssl_key
    THEN UNION {IF ~t[2]
                THEN {MYSQL_ERROR_RETURN_FALSE(t[1], "tls")}
                ELSE connect_handshake(t[1])
                : t \in mysql_ssl_set(s, s.mysql)}
    ELSE connect_handshake(s)

\* connection::connect, TLS (lines 143-152)
connect_tls(s) ==
    IF account.ssl_key
    THEN UNION {IF ~t[2]
                THEN {MYSQL_ERROR_RETURN_FALSE(t[1], "tls")}
                ELSE connect_handshake(t[1])
                : t \in mysql_ssl_set(s, s.mysql)}
    ELSE connect_handshake(s)

\* connection::connect, allocation (lines 135-141)
connect_init(s) ==
    UNION {IF i[2] = NULL
           THEN {<<Failed([i[1] EXCEPT !.mysql = NULL], "alloc"), FALSE>>}
           ELSE connect_tls([i[1] EXCEPT !.mysql = i[2]])
           : i \in mysql_init(s)}

\* connection::connect
connect(s) ==
    UNION {IF c[2] THEN {<<c[1], TRUE>>} ELSE connect_init(c[1])
           : c \in connected(s)}

\* the do-while loop of execute() with affected_rows = in place of
\* affected_rows +=
execute_results_overwrites(s, affected_rows) ==
    UNION {LET n == IF r.kind = "count" THEN r.rows ELSE affected_rows
           IN  IF r.kind = "bad"
               THEN {<<Failed(Fetched(s, r), "result"), affected_rows>>}
               ELSE UNION {IF x[2] > 0
                           THEN {<<Failed(x[1], "advance"), n>>}
                           ELSE IF x[2] = 0
                           THEN execute_results(x[1], n)
                           ELSE {<<x[1], n>>}
                           : x \in mysql_next_result(Fetched(s, r),
                                                     s.mysql)}
           : r \in mysql_store_result(s, s.mysql)}

\* connection::execute, the do-while loop (lines 232-255)
execute_results(s, affected_rows) ==
    UNION {LET n == IF r.kind = "count" THEN affected_rows + r.rows
                    ELSE affected_rows
           IN  IF r.kind = "bad"
               THEN {<<Failed(Fetched(s, r), "result"), affected_rows>>}
               ELSE UNION {IF x[2] > 0
                           THEN {<<Failed(x[1], "advance"), n>>}
                           ELSE IF x[2] = 0
                           THEN execute_results(x[1], n)
                           ELSE {<<x[1], n>>}
                           : x \in mysql_next_result(Fetched(s, r),
                                                     s.mysql)}
           : r \in mysql_store_result(s, s.mysql)}

\* connection::execute
execute(s, kind) ==
    UNION {IF ~c[2]
           THEN {<<c[1], 0>>}
           ELSE UNION {IF ~q[2]
                       THEN {<<Failed(q[1], "native"), 0>>}
                       ELSE execute_results(q[1], 0)
                       : q \in mysql_real_query(c[1], c[1].mysql, kind)}
           : c \in connect(s)}

\* result_set(this): pulls the result that is current on the session
result_set(s) ==
    [Logged(s, "result_set", TRUE) EXCEPT
        !.sessions[s.mysql].pending = @ - 1]

\* connection::query; the result is whether the reference is non-empty
query(s) ==
    UNION {IF ~c[2]
           THEN {<<c[1], FALSE>>}
           ELSE {IF q[2]
                 THEN <<result_set(q[1]), TRUE>>
                 ELSE <<Failed(q[1], "native"), FALSE>>
                 : q \in mysql_real_query(c[1], c[1].mysql, "user")}
           : c \in connect(s)}

\* mysql_insert_id(h): the id generated by the statement, 0 if none
mysql_insert_id(s, h) ==
    {<<Logged(s, "mysql_insert_id", TRUE), id>> : id \in 0..1}

\* connection::insert
insert(s) ==
    UNION {IF ~c[2]
           THEN {<<c[1], 0>>}
           ELSE UNION {IF q[2]
                       THEN mysql_insert_id(q[1], q[1].mysql)
                       ELSE {<<Failed(q[1], "native"), 0>>}
                       : q \in mysql_real_query(c[1], c[1].mysql, "user")}
           : c \in connect(s)}

\* create_statement() without the test of connect()'s result
create_statement_unchecked(s) ==
    {<<Logged(c[1], "statement", TRUE), TRUE>> : c \in connect(s)}

\* connection::create_statement; whether the reference is non-empty
create_statement(s) ==
    {IF c[2] THEN <<Logged(c[1], "statement", TRUE), TRUE>>
             ELSE <<c[1], FALSE>>
     : c \in connect(s)}

\* connection::create_transaction; whether the reference is non-empty
create_transaction(s) ==
    {IF c[2] THEN <<Logged(c[1], "transaction", TRUE), TRUE>>
             ELSE <<c[1], FALSE>>
     : c \in connect(s)}

-----------------------------------------------------------------------------
(* The state machine: one action per public operation. *)

\* connection::connection
Init ==
    /\ account \in Accounts
    /\ m_mysql = NULL
    /\ m_auto_commit = TRUE
    /\ m_schema = ""
    /\ m_charset = ""
    /\ sessions = [h \in Handles |-> FreeSession]
    /\ nalloc = 0
    /\ destroyed = FALSE

\* the object and the library as an operation finds them
Cur ==
    [mysql |-> m_mysql, auto_commit |-> m_auto_commit, schema |-> m_schema,
     charset |-> m_charset, sessions |-> sessions, nalloc |-> nalloc,
     log |-> <<>>, fail |-> "none", sent |-> 0, fetched |-> 0,
     counted |-> 0]

\* a public operation returned, leaving the object and the library as in s
Return(s) ==
    /\ m_mysql' = s.mysql
    /\ m_auto_commit' = s.auto_commit
    /\ m_schema' = s.schema
    /\ m_charset' = s.charset
    /\ sessions' = s.sessions
    /\ nalloc' = s.nalloc
    /\ UNCHANGED account

Connect ==
    /\ ~destroyed
    /\ \E x \in connect(Cur) : Return(x[1])
    /\ UNCHANGED destroyed

Connected ==
    /\ ~destroyed
    /\ \E x \in connected(Cur) : Return(x[1])
    /\ UNCHANGED destroyed

Disconnect ==
    /\ ~destroyed
    /\ Return(disconnect(Cur))
    /\ UNCHANGED destroyed

SetSchema ==
    /\ ~destroyed
    /\ \E name \in Names :
          \E x \in set_schema(Cur, name) : Return(x[1])
    /\ UNCHANGED destroyed

SetCharset ==
    /\ ~destroyed
    /\ \E v \in Charsets : \E x \in set_charset(Cur, v) : Return(x[1])
    /\ UNCHANGED destroyed

SetAutoCommit ==
    /\ ~destroyed
    /\ \E flag \in BOOLEAN :
          \E x \in set_auto_commit(Cur, flag) : Return(x[1])
    /\ UNCHANGED destroyed

Query ==
    /\ ~destroyed
    /\ \E x \in query(Cur) : Return(x[1])
    /\ UNCHANGED destroyed

Execute ==
    /\ ~destroyed
    /\ \E x \in execute(Cur, "user") : Return(x[1])
    /\ UNCHANGED destroyed

Insert ==
    /\ ~destroyed
    /\ \E x \in insert(Cur) : Return(x[1])
    /\ UNCHANGED destroyed

CreateStatement ==
    /\ ~destroyed
    /\ \E x \in create_statement(Cur) : Return(x[1])
    /\ UNCHANGED destroyed

CreateTransaction ==
    /\ ~destroyed
    /\ \E x \in create_transaction(Cur) : Return(x[1])
    /\ UNCHANGED destroyed

\* connection::~connection
Destroy ==
    /\ ~destroyed
    /\ Return(disconnect(Cur))
    /\ destroyed' = TRUE

Next ==
    \/ Connect
    \/ Connected
    \/ Disconnect
    \/ SetSchema
    \/ SetCharset
    \/ SetAutoCommit
    \/ Query
    \/ Execute
    \/ Insert
    \/ CreateStatement
    \/ CreateTransaction
    \/ Destroy

Spec == Init /\ [][Next]_vars

-----------------------------------------------------------------------------
(* Vocabulary of the properties.  The states of Spec are the states at    *)
(* the return of a public operation; what an operation does from such a    *)
(* state is the set of its outcomes there.                                 *)

\* the steps of connect() after the allocation
SetupSteps == {"tls", "handshake", "autocommit", "schema", "option"}

\* the session held is one the server still serves
Live(s) == s.mysql # NULL /\ s.sessions[s.mysql].st = "open"

\* s as the next public operation finds it
Fresh(s) == [s EXCEPT !.log = <<>>, !.fail = "none", !.sent = 0,
                      !.fetched = 0, !.counted = 0]

\* number of successful calls of fn in a log
Calls(l, fn) == Cardinality({i \in 1..Len(l) : l[i] = <<fn, TRUE>>})

\* the object's fields
Fields(s) == <<s.mysql, s.schema, s.charset, s.auto_commit>>

\* C1: whenever connect() returns false because the TLS, handshake,
\* autocommit, default-schema or option step failed, the Connection holds
\* no session handle on return.
C1_FailedConnectHoldsNoHandle ==
    ~destroyed =>
        \A x \in connect(Cur) :
            (~x[2] /\ x[1].fail \in SetupSteps) => x[1].mysql = NULL

\* C2: at the return of every public operation, a present handle is the
\* handle of a fully configured session: handshake done, autocommit as the
\* account asks or applied, the account's schema selected if it has one,
\* every session option applied.  (A session the server has dropped since
\* is not judged.)
C2_HandleImpliesConfigured ==
    (m_mysql # NULL /\ sessions[m_mysql].st # "lost") =>
        LET ses == sessions[m_mysql] IN
        /\ ses.st = "open"
        /\ ses.acset \/ ses.autocommit = account.auto_commit
        /\ account.schema # "" => ses.defsel
        /\ ses.opts >= account.options

\* C3: every handle allocated is closed exactly once: none is closed twice,
\* none but the one the Connection holds is unclosed (no handle is
\* overwritten while unclosed), and after destruction all are closed.
C3_EveryHandleClosedOnce ==
    \A h \in 1..nalloc :
        /\ sessions[h].closes <= 1
        /\ h # m_mysql => sessions[h].st = "closed"
        /\ destroyed => sessions[h].st = "closed"

\* C4: whenever the Connection is connected, the cached auto_commit equals
\* the server-side autocommit mode of the session held.
C4_AutoCommitMirrorsServer ==
    Live(Cur) => m_auto_commit = sessions[m_mysql].autocommit

\* C5: after a connect() in which the TLS, handshake, autocommit,
\* default-schema or option step failed, connected() returns false.
C5_FailedConnectNotConnected ==
    ~destroyed =>
        \A x \in connect(Cur) :
            (~x[2] /\ x[1].fail \in SetupSteps) =>
                \A y \in connected(Fresh(x[1])) : ~y[2]

\* a state from which connect() can fail at each of the five steps, the
\* handle staying behind at two of them
C5_Witness ==
    /\ ~destroyed
    /\ \A step \in SetupSteps :
          \E x \in connect(Cur) : ~x[2] /\ x[1].fail = step
    /\ \E x \in connect(Cur) : ~x[2] /\ x[1].mysql # NULL

\* C6: when connect() returned true and the session is still reported
\* live, a second connect() returns true with the liveness probe as its
\* only native call and changes nothing, and the two calls together
\* performed at most one handshake.
C6_ConnectTwiceOneHandshake ==
    ~destroyed =>
        \A x \in connect(Cur) : x[2] =>
            \A y \in connect(Fresh(x[1])) :
                y[1].log[1] = <<"mysql_stat", TRUE>> =>
                    /\ y[2]
                    /\ y[1].log = << <<"mysql_stat", TRUE>> >>
                    /\ Fields(y[1]) = Fields(x[1])
                    /\ y[1].sessions = x[1].sessions
                    /\ y[1].nalloc = x[1].nalloc
                    /\ Calls(x[1].log, "mysql_real_connect")
                       + Calls(y[1].log, "mysql_real_connect") <= 1

\* The part of C6 about the second call alone: it is a no-op returning
\* true.
C6_SecondConnectIsNoOp ==
    ~destroyed =>
        \A x \in connect(Cur) : x[2] =>
            \A y \in connect(Fresh(x[1])) :
                y[1].log[1] = <<"mysql_stat", TRUE>> =>
                    /\ y[2]
                    /\ y[1].log = << <<"mysql_stat", TRUE>> >>
                    /\ Fields(y[1]) = Fields(x[1])
                    /\ y[1].sessions = x[1].sessions
                    /\ y[1].nalloc = x[1].nalloc

\* C7: connected() is false on a Connection that has not been used, and
\* false right after disconnect(), whatever came before.
C7_NotConnectedAfterDisconnect ==
    ~destroyed =>
        /\ nalloc = 0 => \A y \in connected(Cur) : ~y[2]
        /\ \A y \in connected(Fresh(disconnect(Cur))) : ~y[2]

\* disconnect() has a live session to close while a failed connect() has
\* left a handle behind
C7_Witness ==
    /\ ~destroyed
    /\ Live(Cur)
    /\ \E h \in 1..nalloc : sessions[h].st = "init"

\* C8: a disconnect() without a handle issues no native call and changes
\* nothing, so a second disconnect() in a row leaves what the first left.
C8_DisconnectIdempotent ==
    ~destroyed =>
        LET d == disconnect(Cur) IN
        /\ m_mysql = NULL => d = Cur
        /\ d.mysql = NULL
        /\ disconnect(d) = d

\* a handle is held, so that the first disconnect() closes it
C8_Witness ==
    /\ ~destroyed
    /\ m_mysql # NULL
    /\ Len(disconnect(Cur).log) = 2

\* C9: set_auto_commit(flag) with flag equal to the cached value returns
\* true, issues no native call and changes nothing, connected or not.
C9_SetAutoCommitSameIsNoOp ==
    ~destroyed =>
        \A flag \in BOOLEAN :
            m_auto_commit = flag =>
                set_auto_commit(Cur, flag) = {<<Cur, TRUE>>}

\* connected, with a cached value other than the initial one
C9_Witness ==
    /\ ~destroyed
    /\ Live(Cur)
    /\ m_auto_commit = FALSE

\* C10: set_schema / set_charset leave the requested value cached when
\* they return true, and the cached value of before when they return
\* false.
C10_SetterCachesIffSuccess ==
    ~destroyed =>
        /\ \A name \in Names : \A x \in set_schema(Cur, name) :
              /\ x[2] => x[1].schema = name
              /\ ~x[2] => x[1].schema = m_schema
        /\ \A v \in Charsets : \A x \in set_charset(Cur, v) :
              /\ x[2] => x[1].charset = v
              /\ ~x[2] => x[1].charset = m_charset

\* C10, amended: set_schema / set_charset leave the requested value cached
\* when they return true.  When set_charset returns false the cached
\* charset is the one of before.  When set_schema returns false the cached
\* schema is the one of before, unless the call had to establish a session
\* and that cached the account's default schema.
C10_SetterCachesOnSuccess ==
    ~destroyed =>
        /\ \A name \in Names : \A x \in set_schema(Cur, name) :
              /\ x[2] => x[1].schema = name
              /\ (~x[2] /\ x[1].schema # m_schema) =>
                    /\ account.schema # ""
                    /\ x[1].schema = account.schema
                    /\ Calls(x[1].log, "mysql_real_connect") >= 1
        /\ \A v \in Charsets : \A x \in set_charset(Cur, v) :
              /\ x[2] => x[1].charset = v
              /\ ~x[2] => x[1].charset = m_charset

\* set_schema can fail on the session held, and can fail after it
\* established a session that cached the account's schema over another
C10_Witness ==
    /\ ~destroyed
    /\ m_schema = "db2"
    /\ \E x \in set_schema(Cur, "db2") : ~x[2] /\ x[1].schema = "db1"
    /\ \E x \in set_schema(Cur, "db1") : ~x[2] /\ x[1].schema = "db2"
    /\ \E x \in set_charset(Cur, "utf8") : ~x[2]

-----------------------------------------------------------------------------
\* the connection was live when the operation began: its opening probe
\* succeeded
BeganConnected(s) == s.log # <<>> /\ s.log[1] = <<"mysql_stat", TRUE>>

\* C11: execute(text) returns the sum of the affected-row counts of the
\* non-SELECT results fetched before the first error; buffered result sets
\* add nothing; a failed send (or a failed connect) returns 0; a result
\* with no buffered set but a non-zero field count, or a positive advance
\* status, ends the loop with the count accumulated so far; without an
\* error every result of the text was fetched and counted.
C11_ExecuteSumsAffectedRows ==
    ~destroyed =>
        \A x \in execute(Cur, "user") :
            /\ x[1].sent = 0 => x[2] = 0
            /\ (x[1].sent > 0 /\ x[1].fail \in {"none", "result", "advance"}) =>
                  /\ x[2] = x[1].counted
                  /\ x[1].fetched \in 1..x[1].sent
                  /\ x[1].fail = "none" => x[1].fetched = x[1].sent
            /\ x[1].fail \in {"native", "alloc"} \cup SetupSteps =>
                  x[2] = 0

\* execute() of a text of MaxResults statements that each affected a row;
\* one that failed to advance after a counted result; one that hit an
\* unreadable result after a counted one; one that fetched two results
\* and counted no row
C11_Witness ==
    /\ ~destroyed
    /\ \E x \in execute(Cur, "user") :
          x[1].fail = "none" /\ x[1].sent = MaxResults /\ x[2] = MaxResults
    /\ \E x \in execute(Cur, "user") :
          x[1].fail = "advance" /\ x[2] = 1 /\ x[1].fetched = 1
    /\ \E x \in execute(Cur, "user") :
          x[1].fail = "result" /\ x[2] = 1 /\ x[1].fetched = 2
    /\ \E x \in execute(Cur, "user") :
          x[1].fail = "none" /\ x[2] = 0 /\ x[1].fetched = 2

\* s, left behind by an operation that began in the current state, shows
\* no disconnect by a failed native call of the operation itself: if the
\* operation began connected and failed, the handle is the one held
\* before and has not been closed; and if a handle was closed, the failure
\* is one of connect()'s setup steps
KeepsSession(s) ==
    /\ (BeganConnected(s) /\ s.fail # "none") =>
          /\ s.fail \in {"native", "result", "advance"}
          /\ s.mysql = m_mysql
          /\ s.sessions[m_mysql].st = "open"
          /\ s.sessions[m_mysql].closes = sessions[m_mysql].closes
          /\ Calls(s.log, "mysql_close") = 0
    /\ Calls(s.log, "mysql_close") > 0 => s.fail \in SetupSteps

\* C12: a native call that fails in set_schema, set_charset,
\* set_auto_commit, query, execute or insert on a connected session does
\* not disconnect: on return the handle is the one held before and it has
\* not been closed.  A session is closed inside these operations only by a
\* failure of connect()'s own setup phase.
C12_UserFailureKeepsSession ==
    ~destroyed =>
        /\ \A name \in Names :
              \A x \in set_schema(Cur, name) : KeepsSession(x[1])
        /\ \A v \in Charsets :
              \A x \in set_charset(Cur, v) : KeepsSession(x[1])
        /\ \A flag \in BOOLEAN :
              \A x \in set_auto_commit(Cur, flag) : KeepsSession(x[1])
        /\ \A x \in query(Cur) : KeepsSession(x[1])
        /\ \A x \in execute(Cur, "user") : KeepsSession(x[1])
        /\ \A x \in insert(Cur) : KeepsSession(x[1])

\* on a live session, a setter's native call fails, a text fails to go
\* out, and a text fails while its results are fetched
C12_Witness ==
    /\ ~destroyed
    /\ Live(Cur)
    /\ \E name \in Names : \E x \in set_schema(Cur, name) :
          /\ BeganConnected(x[1]) /\ x[1].fail = "native"
          /\ x[1].log[Len(x[1].log)] = <<"mysql_select_db", FALSE>>
    /\ \E x \in query(Cur) :
          /\ BeganConnected(x[1]) /\ x[1].fail = "native"
          /\ x[1].log[Len(x[1].log)] = <<"mysql_real_query", FALSE>>
    /\ \E x \in execute(Cur, "user") :
          BeganConnected(x[1]) /\ x[1].fail \in {"result", "advance"}

\* C13: connect() calls the native TLS setup exactly when the account's
\* TLS key is non-empty; the call comes right after the handle's
\* allocation and before the handshake, which follows only a successful
\* TLS setup.  With an empty key no connect attempt makes a TLS call and
\* the handshake follows the allocation directly.
C13_TlsIffKeyBetweenInitAndHandshake ==
    ~destroyed =>
        \A x \in connect(Cur) :
            LET l == x[1].log
            IN  \A i \in 1..Len(l) :
                    /\ l[i][1] = "mysql_ssl_set" =>
                          /\ account.ssl_key
                          /\ i > 1
                          /\ l[i - 1] = <<"mysql_init", TRUE>>
                    /\ (l[i] = <<"mysql_init", TRUE>> /\ account.ssl_key) =>
                          i < Len(l) /\ l[i + 1][1] = "mysql_ssl_set"
                    /\ l[i][1] = "mysql_real_connect" =>
                          /\ i > 1
                          /\ l[i - 1] = IF account.ssl_key
                                        THEN <<"mysql_ssl_set", TRUE>>
                                        ELSE <<"mysql_init", TRUE>>

\* a connect() with a TLS key that set up TLS and then shook hands, and
\* one whose TLS setup failed
C13_Witness ==
    /\ ~destroyed
    /\ account.ssl_key
    /\ \E x \in connect(Cur) :
          /\ x[2]
          /\ Calls(x[1].log, "mysql_ssl_set") = 1
          /\ Calls(x[1].log, "mysql_real_connect") = 1
    /\ \E x \in connect(Cur) :
          x[1].fail = "tls" /\ <<"mysql_ssl_set", FALSE>> = x[1].log[Len(x[1].log)]

\* where connect() can fail
ConnectSteps == SetupSteps \cup {"alloc"}

\* the ways connect() can fail from s, as the object and library are left
ConnectFailures(s) == {c[1] : c \in {d \in connect(s) : ~d[2]}}

\* out, the outcomes of an operation, are those of an operation that calls
\* connect() first and gives up with sentinel when it fails, failures
\* being the ways that connect() can fail: every outcome begins with
\* connect()'s first native call; an outcome whose failure is a connect()
\* failure carries the sentinel and is exactly a failed connect(), nothing
\* issued or constructed after it; and every failure of connect() is such
\* an outcome
ConnectsFirst(out, sentinel, failures) ==
    /\ \A x \in out :
          /\ x[1].log # <<>>
          /\ x[1].log[1][1] =
                IF m_mysql = NULL THEN "mysql_init" ELSE "mysql_stat"
          /\ x[1].fail \in ConnectSteps =>
                x[2] = sentinel /\ x[1] \in failures
    /\ \A f \in failures : <<f, sentinel>> \in out

\* C14: set_schema, set_charset, set_auto_commit with a differing flag,
\* query, execute, insert, create_statement and create_transaction call
\* connect() first, and when that connect() fails they return false (0 for
\* execute and insert) without a native call of their own and without
\* constructing a statement, transaction or result set.
C14_OperationsConnectFirst ==
    ~destroyed =>
        LET f == ConnectFailures(Cur)
        IN  /\ \A name \in Names :
                  ConnectsFirst(set_schema(Cur, name), FALSE, f)
            /\ \A v \in Charsets : ConnectsFirst(set_charset(Cur, v), FALSE, f)
            /\ ConnectsFirst(set_auto_commit(Cur, ~m_auto_commit), FALSE, f)
            /\ ConnectsFirst(query(Cur), FALSE, f)
            /\ ConnectsFirst(execute(Cur, "user"), 0, f)
            /\ ConnectsFirst(insert(Cur), 0, f)
            /\ ConnectsFirst(create_statement(Cur), FALSE, f)
            /\ ConnectsFirst(create_transaction(Cur), FALSE, f)

\* the object held a handle whose session was gone, and the connect() an
\* operation began with failed in its handshake or in a later setup step
C14_Witness ==
    /\ ~destroyed
    /\ m_mysql # NULL
    /\ ~Live(Cur)
    /\ \E x \in query(Cur) : ~x[2] /\ x[1].fail = "handshake"
    /\ \E x \in create_statement(Cur) :
          ~x[2] /\ x[1].fail \in {"autocommit", "schema", "option"}
    /\ \E x \in execute(Cur, "user") :
          /\ x[2] = 0 /\ x[1].fail = "option"
          /\ Calls(x[1].log, "mysql_real_query") = 0

\* the thread-local releases made so far on behalf of handles 1..h
RECURSIVE Releases(_, _)
Releases(ss, h) == IF h = 0 THEN 0 ELSE ss[h].ends + Releases(ss, h - 1)

\* C15: every handle allocated gets its thread-local release: once
\* disconnect() or the destructor has run, the releases number the
\* successful allocations; a release is made by the disconnect() that
\* closes the handle, right after the close; a disconnect() without a
\* handle releases nothing.
C15_ReleasesMatchAllocations ==
    /\ destroyed => Releases(sessions, MaxHandles) = nalloc
    /\ ~destroyed =>
          LET d == disconnect(Cur)
          IN  /\ Releases(d.sessions, MaxHandles) = d.nalloc
              /\ d.log = IF m_mysql = NULL
                         THEN <<>>
                         ELSE << <<"mysql_close", TRUE>>,
                                 <<"mysql_thread_end", TRUE>> >>
              /\ \A h \in Handles : d.sessions[h].ends = d.sessions[h].closes

\* C16: whenever the object is connected, the cached schema and charset
\* are the database and charset in effect on the session it holds, also
\* after disconnect and reconnect: a non-empty cached value is never
\* carried into a session on which it was not selected.
C16_CacheMirrorsSession ==
    (~destroyed /\ Live(Cur)) =>
        /\ m_schema = sessions[m_mysql].db
        /\ m_charset = sessions[m_mysql].cs

\* C17: a connect() that returns false leaves the cached schema, charset
\* and auto-commit flag as they were before the call, whichever step
\* failed.
C17_FailedConnectKeepsCache ==
    ~destroyed =>
        \A x \in connect(Cur) :
            ~x[2] =>
                /\ x[1].schema = m_schema
                /\ x[1].charset = m_charset
                /\ x[1].auto_commit = m_auto_commit

\* C18: a connect() allocates at most one handle and performs at most one
\* handshake, whatever the liveness probe and the native calls return: the
\* connect() calls nested in its setup phase return at once.
C18_ConnectAllocatesOnce ==
    ~destroyed =>
        \A x \in connect(Cur) :
            /\ Calls(x[1].log, "mysql_init") <= 1
            /\ Calls(x[1].log, "mysql_real_connect") <= 1
            /\ x[1].nalloc <= nalloc + 1

\* C19: when execute(text) returns after the text went out, none of the
\* text's results is left pending on the session, on the success path and
\* on both error returns of the loop.
C19_ExecuteLeavesNothingPending ==
    ~destroyed =>
        \A x \in execute(Cur, "user") :
            (x[1].sent > 0 /\ x[1].fail \in {"none", "result", "advance"}) =>
                x[1].sessions[x[1].mysql].pending = 0
====
